---- MODULE Spec2Model ----
(***************************************************************************)
(* State-machine model of the analytics blueprint in src/analytics_s3.py:  *)
(* the write path (track), the hour-partitioned key scheme, the paginated  *)
(* listing (_list_event_keys), the tolerant decode (_load_event), the fold *)
(* (_aggregate) and the stats route with its reshaping.                    *)
(*                                                                         *)
(* Representation.  A Python str is a sequence of one-character strings.   *)
(* A datetime is a number of clock ticks since the epoch; an hour holds    *)
(* TicksPerHour ticks.  The ISO form of a timestamp is the sequence        *)
(* <<date, hour, tick-in-hour>>, whose first element stands for the ten    *)
(* characters YYYY-MM-DD.  An S3 object body is the JSON document it       *)
(* holds: an object with the event's fields, a non-object value, or text   *)
(* json.loads rejects.                                                     *)
(***************************************************************************)
EXTENDS Integers, Sequences, FiniteSets, TLC

VARIABLES
    now,        \* the UTC clock read by _now()
    store,      \* the bucket: object key -> body
    usedIds,    \* the uuid4 values drawn so far
    trackReq,   \* the last /api/track request
    trackResp,  \* its response
    putCalls,   \* the put_object calls that request made
    acked,      \* the events /api/track answered ok for
    qpc,        \* where the /api/stats request stands
    qreq,       \* its query parameters
    qsince,     \* since
    quntil,     \* until
    qparts,     \* the hour prefixes still to list, the current one first
    qcont,      \* continuation
    qkeys,      \* keys
    qcalls,     \* every list_objects_v2 call made: prefix and token passed
    qpages,     \* every page the store answered
    qbefore,    \* the events acknowledged before the request began
    qpos,       \* how many keys _aggregate has consumed
    by_group,   \* _aggregate's by_group
    daily,      \* _aggregate's daily
    qcounted,   \* the keys _aggregate counted, with the module counted under
    qresp,      \* the response of /api/stats
    wIn,        \* _parse_window: the argument
    wOut,       \* _parse_window: the outcome
    pSince,     \* _hourly_prefixes_between: since
    pUntil,     \* _hourly_prefixes_between: until
    pOut,       \* _hourly_prefixes_between: the prefixes generated
    aBodies,    \* _aggregate on its own: the bodies behind the keys, in key order
    aFilter,    \* _aggregate on its own: module_filter
    aOut        \* _aggregate on its own: the outcome

vars == <<now, store, usedIds, trackReq, trackResp, putCalls, acked,
          qpc, qreq, qsince, quntil, qparts, qcont, qkeys, qcalls, qpages,
          qbefore, qpos, by_group, daily, qcounted, qresp,
          wIn, wOut, pSince, pUntil, pOut, aBodies, aFilter, aOut>>

trackVars == <<store, usedIds, trackReq, trackResp, putCalls, acked>>
queryVars == <<qpc, qreq, qsince, quntil, qparts, qcont, qkeys, qcalls, qpages,
               qbefore, qpos, by_group, daily, qcounted, qresp>>
windowVars == <<wIn, wOut>>
partVars == <<pSince, pUntil, pOut>>
aggVars == <<aBodies, aFilter, aOut>>

(***************************************************************************)
(* Bounds of the model.                                                    *)
(***************************************************************************)
TicksPerHour == 2   \* clock ticks in an hour
MaxTicks == 2       \* ticks the clock advances during a run
MaxIds == 2         \* uuid4 values available
MaxPage == 2        \* most keys the store puts in one page
MaxWinLen == 3      \* longest window string
MaxSpan == 8        \* since and until range over this many ticks
MaxBodies == 3      \* most keys handed to _aggregate on its own

(***************************************************************************)
(* Program constants.                                                      *)
(***************************************************************************)
HoursPerDay == 24
DefaultHours == 168
UserIdMax == 128
ModuleMax == 64
ActionMax == 64
TopRows == 500

Min(a, b) == IF a < b THEN a ELSE b
Max(a, b) == IF a > b THEN a ELSE b

(***************************************************************************)
(* Python values.                                                          *)
(***************************************************************************)
\* Python's None, where a str is expected.
NoneVal == <<"None">>

\* bool(x) for a str or None.
Truthy(x) == x # NoneVal /\ x # <<>>

\* x or y
Or(x, y) == IF Truthy(x) THEN x ELSE y

\* s[:n]
Prefix(s, n) == SubSeq(s, 1, Min(n, Len(s)))

RECURSIVE Strip(_)
\* str.strip()
Strip(s) ==
    IF s = <<>> THEN s
    ELSE IF Head(s) = " " THEN Strip(Tail(s))
    ELSE IF s[Len(s)] = " " THEN Strip(SubSeq(s, 1, Len(s) - 1))
    ELSE s

LowerChar(c) ==
    CASE c = "A" -> "a"
      [] c = "B" -> "b"
      [] c = "D" -> "d"
      [] c = "H" -> "h"
      [] OTHER -> c

\* str.lower()
Lower(s) == [i \in 1..Len(s) |-> LowerChar(s[i])]

\* str.endswith(c) for a one-character c
EndsWith(s, c) == Len(s) > 0 /\ s[Len(s)] = c

IsDigit(c) == c \in {"0", "1", "2", "3", "4", "5", "6", "7", "8", "9"}

DigitVal(c) ==
    CASE c = "0" -> 0 [] c = "1" -> 1 [] c = "2" -> 2 [] c = "3" -> 3
      [] c = "4" -> 4 [] c = "5" -> 5 [] c = "6" -> 6 [] c = "7" -> 7
      [] c = "8" -> 8 [] OTHER -> 9

RECURSIVE DigitsVal(_)
DigitsVal(s) ==
    IF s = <<>> THEN 0
    ELSE 10 * DigitsVal(SubSeq(s, 1, Len(s) - 1)) + DigitVal(s[Len(s)])

AllDigits(s) == Len(s) > 0 /\ \A i \in 1..Len(s) : IsDigit(s[i])

\* int(s): surrounding blanks dropped, an optional sign, then digits; anything
\* else raises ValueError.
int(s) ==
    LET t == Strip(s)
        signed == Len(t) > 0 /\ t[1] \in {"-", "+"}
        digits == IF signed THEN Tail(t) ELSE t
    IN  IF AllDigits(digits)
        THEN [raised |-> FALSE,
              value |-> IF signed /\ t[1] = "-" THEN 0 - DigitsVal(digits)
                        ELSE DigitsVal(digits)]
        ELSE [raised |-> TRUE, value |-> 0]

(***************************************************************************)
(* _parse_window                                                           *)
(***************************************************************************)
parse_window(window) ==
    LET w == Lower(Or(window, <<"7", "d">>))
        n == int(SubSeq(w, 1, Len(w) - 1))
    IN  IF EndsWith(w, "h")
        THEN IF n.raised THEN [raised |-> TRUE, hours |-> 0]
             ELSE [raised |-> FALSE, hours |-> Max(1, n.value)]
        ELSE IF EndsWith(w, "d")
        THEN IF n.raised THEN [raised |-> TRUE, hours |-> 0]
             ELSE [raised |-> FALSE, hours |-> Max(1, n.value * HoursPerDay)]
        ELSE [raised |-> FALSE, hours |-> DefaultHours]

(***************************************************************************)
(* Timestamps and the partition key scheme.                                *)
(***************************************************************************)
\* ts.replace(minute=0, second=0, microsecond=0)
TruncHour(ts) == ts - (ts % TicksPerHour)

HourIndex(ts) == ts \div TicksPerHour

\* The date of ts (year, month and day as one ordinal) and its hour of day.
DateOf(ts) == HourIndex(ts) \div HoursPerDay
HourOf(ts) == HourIndex(ts) % HoursPerDay

\* ts.isoformat() + "Z"
isoformat(ts) == <<DateOf(ts), HourOf(ts), ts % TicksPerHour>>

\* _hour_prefix: events/yyyy/mm/dd/hh/
hour_prefix(ts) == <<DateOf(ts), HourOf(ts)>>

\* Lexicographic order of two prefixes (zero-padded, so field by field).
PrefixLess(p, q) == p[1] < q[1] \/ (p[1] = q[1] /\ p[2] < q[2])

RECURSIVE PrefixesFrom(_, _)
PrefixesFrom(cur, end) ==
    IF cur <= end
    THEN <<hour_prefix(cur)>> \o PrefixesFrom(cur + TicksPerHour, end)
    ELSE <<>>

\* A variant that walks from since itself instead of from the start of its hour.
hourly_prefixes_from_since(since, until) ==
    PrefixesFrom(since, TruncHour(until))

\* _hourly_prefixes_between
hourly_prefixes_between(since, until) ==
    PrefixesFrom(TruncHour(since), TruncHour(until))

(***************************************************************************)
(* JSON documents: what an object body holds.                              *)
(***************************************************************************)
\* A JSON object with the event's fields; NoneVal (for id and ts_utc: <<>>) marks
\* a field the object lacks, other tells whether it has any further field.
JsonObject(id, ts_utc, user_id, module, action, other) ==
    [json |-> "object", id |-> id, ts_utc |-> ts_utc, user_id |-> user_id,
     module |-> module, action |-> action, other |-> other]

\* b"{}"
EmptyObject == JsonObject(<<>>, <<>>, NoneVal, NoneVal, NoneVal, FALSE)

\* A JSON value that is no object: null, a number, a string, a list.
JsonValue(truthy) == [json |-> "value", truthy |-> truthy]

\* Bytes json.loads rejects: truncated, empty or not JSON at all.
Garbage == [json |-> "invalid"]

\* bool(ev) for what json.loads returned.
NonEmpty(ev) ==
    IF ev.json = "object"
    THEN \/ ev.other
         \/ ev.id # <<>> \/ ev.user_id # NoneVal
         \/ ev.module # NoneVal \/ ev.action # NoneVal \/ ev.ts_utc # <<>>
    ELSE ev.truthy

\* _safe_json: json.dumps(obj).encode("utf-8"), and b"{}" when that raises,
\* which it does on a str holding a lone surrogate (encodable = FALSE).
safe_json(obj, encodable) == IF encodable THEN obj ELSE EmptyObject

\* _load_event, given the body get_object returned
load_event(body) == IF body.json = "invalid" THEN EmptyObject ELSE body

(***************************************************************************)
(* Python dicts: insertion-ordered lists of (key, value), equal when they  *)
(* map the same keys to the same values.                                   *)
(***************************************************************************)
DictKeys(d) == {d[i].k : i \in 1..Len(d)}

DictGet(d, k, dflt) ==
    IF k \in DictKeys(d)
    THEN d[CHOOSE i \in 1..Len(d) : d[i].k = k].v
    ELSE dflt

\* d[k] = v
DictSet(d, k, v) ==
    IF k \in DictKeys(d)
    THEN [i \in 1..Len(d) |-> IF d[i].k = k THEN [k |-> k, v |-> v] ELSE d[i]]
    ELSE Append(d, [k |-> k, v |-> v])

\* The mapping a dict stands for.
AsMap(d) == [k \in DictKeys(d) |-> DictGet(d, k, 0)]

\* The mapping a dict of dicts stands for.
AsMap2(d) == [k \in DictKeys(d) |-> AsMap(DictGet(d, k, <<>>))]

(***************************************************************************)
(* _aggregate                                                              *)
(***************************************************************************)
EmptyAgg == [raised |-> FALSE, by_group |-> <<>>, daily |-> <<>>]

\* A variant that starts the day's dict afresh: daily[ts] = {mod: count + 1}.
DailyBumpAfresh(d, ts, mod) ==
    LET day == DictGet(d, ts, <<>>)
    IN  DictSet(d, ts, DictSet(<<>>, mod, DictGet(day, mod, 0) + 1))

\* daily.setdefault(ts, {}); daily[ts][mod] = daily[ts].get(mod, 0) + 1
DailyBump(d, ts, mod) ==
    LET day == DictGet(d, ts, <<>>)
    IN  DictSet(d, ts, DictSet(day, mod, DictGet(day, mod, 0) + 1))

\* by_group[g] = by_group.get(g, 0) + 1
GroupBump(g, key) == DictSet(g, key, DictGet(g, key, 0) + 1)

\* The module an event is counted under: ev.get("module") or "unknown".
ModuleOf(ev) == Or(ev.module, <<"unknown">>)

\* Whether the loop body counts the event (neither `continue` is taken).
Retained(ev, module_filter) ==
    /\ NonEmpty(ev)
    /\ ev.json = "object"
    /\ ~(Truthy(module_filter) /\ ModuleOf(ev) # module_filter)

\* One turn of the loop over keys, for the body behind the key.  A value that
\* is no dict has no .get: AttributeError leaves the loop.
agg_step(acc, body, module_filter) ==
    LET ev == load_event(body)
    IN  IF acc.raised THEN acc
        ELSE IF ~NonEmpty(ev) THEN acc
        ELSE IF ev.json # "object" THEN [acc EXCEPT !.raised = TRUE]
        ELSE IF Truthy(module_filter) /\ ModuleOf(ev) # module_filter THEN acc
        ELSE LET mod == ModuleOf(ev)
                 ts == Prefix(ev.ts_utc, 1)
                 uid == IF ev.user_id = NoneVal THEN <<"n", "a">> ELSE ev.user_id
             IN  [raised |-> FALSE,
                  by_group |-> GroupBump(acc.by_group, <<mod, uid>>),
                  daily |-> DailyBump(acc.daily, ts, mod)]

RECURSIVE AggFrom(_, _, _)
AggFrom(acc, bodies, module_filter) ==
    IF bodies = <<>> THEN acc
    ELSE AggFrom(agg_step(acc, Head(bodies), module_filter), Tail(bodies),
                 module_filter)

\* _aggregate over the bodies behind its keys, in key order
aggregate(bodies, module_filter) == AggFrom(EmptyAgg, bodies, module_filter)

(***************************************************************************)
(* The state before anything has run.                                      *)
(***************************************************************************)
\* The clock when the process starts: half an hour before the last hour of a day.
StartTick == (HoursPerDay - 1) * TicksPerHour - 1

NoTrackRequest ==
    [module |-> NoneVal, action |-> NoneVal, user_id |-> NoneVal,
     x_user_id |-> NoneVal, cid |-> NoneVal, x_forwarded_for |-> NoneVal,
     remote_addr |-> NoneVal, user_agent |-> NoneVal, encodable |-> TRUE]

NoTrackResponse == [status |-> 0, id |-> 0, ts_utc |-> <<>>]

NoStatsResponse ==
    [status |-> 0, group_by |-> "", since_utc |-> <<>>, until_utc |-> <<>>,
     results |-> <<>>]

NoQuery == [window |-> NoneVal, by |-> "", module |-> NoneVal]

TrackIdle ==
    /\ store = <<>>
    /\ usedIds = {}
    /\ trackReq = NoTrackRequest
    /\ trackResp = NoTrackResponse
    /\ putCalls = 0
    /\ acked = {}

QueryIdle ==
    /\ qpc = "idle"
    /\ qreq = NoQuery
    /\ qsince = 0
    /\ quntil = 0
    /\ qparts = <<>>
    /\ qcont = <<>>
    /\ qkeys = <<>>
    /\ qcalls = <<>>
    /\ qpages = <<>>
    /\ qbefore = {}
    /\ qpos = 0
    /\ by_group = <<>>
    /\ daily = <<>>
    /\ qcounted = <<>>
    /\ qresp = NoStatsResponse

WindowIdle == wIn = NoneVal /\ wOut = [done |-> FALSE, raised |-> FALSE, hours |-> 0]

PartIdle == pSince = 0 /\ pUntil = 0 /\ pOut = [done |-> FALSE, prefixes |-> <<>>]

AggIdle ==
    /\ aBodies = <<>>
    /\ aFilter = NoneVal
    /\ aOut = [done |-> FALSE, raised |-> FALSE, by_group |-> <<>>, daily |-> <<>>]

\* All sequences over S of length at most n.
SeqsUpTo(S, n) == UNION {[1..k -> S] : k \in 0..n}

(***************************************************************************)
(* _parse_window on its own: every window string over a small alphabet.    *)
(***************************************************************************)
WindowChars == {"0", "1", "2", "-", ".", "a", "h", "d", "D"}

WindowStrings == SeqsUpTo(WindowChars, MaxWinLen) \cup {NoneVal}

InitWindow ==
    /\ now = StartTick
    /\ TrackIdle /\ QueryIdle /\ PartIdle /\ AggIdle
    /\ wIn \in WindowStrings
    /\ wOut = [done |-> FALSE, raised |-> FALSE, hours |-> 0]

ParseWindow ==
    /\ ~wOut.done
    /\ LET r == parse_window(wIn)
       IN  wOut' = [done |-> TRUE, raised |-> r.raised, hours |-> r.hours]
    /\ UNCHANGED <<now, trackVars, queryVars, wIn, partVars, aggVars>>

SpecWindow == InitWindow /\ [][ParseWindow]_vars

(***************************************************************************)
(* _hourly_prefixes_between on its own: every pair of timestamps in a span *)
(* that crosses midnight.                                                  *)
(***************************************************************************)
SpanTicks == StartTick..(StartTick + MaxSpan)

InitPart ==
    /\ now = StartTick
    /\ TrackIdle /\ QueryIdle /\ WindowIdle /\ AggIdle
    /\ pSince \in SpanTicks
    /\ pUntil \in SpanTicks
    /\ pOut = [done |-> FALSE, prefixes |-> <<>>]

Partition ==
    /\ ~pOut.done
    /\ pOut' = [done |-> TRUE, prefixes |-> hourly_prefixes_between(pSince, pUntil)]
    /\ UNCHANGED <<now, trackVars, queryVars, windowVars, pSince, pUntil, aggVars>>

SpecPart == InitPart /\ [][Partition]_vars

(***************************************************************************)
(* _aggregate on its own: every short list of keys over a pool of bodies.  *)
(***************************************************************************)
\* A well-formed event, as track writes it.
EventBody(id, date, user, module) ==
    JsonObject(id, <<date, 0, 0>>, user, module, <<"o">>, TRUE)

BodyPool ==
    { EventBody(<<1>>, 0, <<"u">>, <<"a">>),
      EventBody(<<2>>, 0, <<"v">>, <<"a">>),
      EventBody(<<3>>, 0, <<"u">>, <<"b">>),
      EventBody(<<4>>, 1, <<"u">>, <<"a">>),
      Garbage,                                   \* truncated or empty bytes
      EmptyObject,                               \* {}
      JsonValue(FALSE),                          \* null, 0, [], ""
      JsonValue(TRUE),                           \* [1], 5, "abc"
      JsonObject(<<>>, <<>>, NoneVal, NoneVal, NoneVal, TRUE) }  \* {"foo": 1}

InitAgg ==
    /\ now = StartTick
    /\ TrackIdle /\ QueryIdle /\ WindowIdle /\ PartIdle
    /\ aBodies \in SeqsUpTo(BodyPool, MaxBodies)
    /\ aFilter \in {NoneVal, <<"a">>}
    /\ aOut = [done |-> FALSE, raised |-> FALSE, by_group |-> <<>>, daily |-> <<>>]

Aggregate ==
    /\ ~aOut.done
    /\ LET r == aggregate(aBodies, aFilter)
       IN  aOut' = [done |-> TRUE, raised |-> r.raised,
                    by_group |-> r.by_group, daily |-> r.daily]
    /\ UNCHANGED <<now, trackVars, queryVars, windowVars, partVars, aBodies, aFilter>>

SpecAgg == InitAgg /\ [][Aggregate]_vars

(***************************************************************************)
(* The object store.                                                       *)
(***************************************************************************)
\* The key of an event: f"{_hour_prefix(ts)}{id}.json"
object_key(ts, id) == hour_prefix(ts) \o <<id>>

KeyPrefix(key) == SubSeq(key, 1, 2)

\* Lexicographic order of two keys.
KeyLess(a, b) ==
    \/ PrefixLess(KeyPrefix(a), KeyPrefix(b))
    \/ (KeyPrefix(a) = KeyPrefix(b) /\ a[3] < b[3])

RECURSIVE SortKeys(_)
\* The keys of S in the store's listing order.
SortKeys(S) ==
    IF S = {} THEN <<>>
    ELSE LET m == CHOOSE k \in S : \A j \in S : j = k \/ KeyLess(k, j)
         IN  <<m>> \o SortKeys(S \ {m})

\* put_object: the key then holds the body, whatever it held before.
put_object(s, key, body) ==
    [k \in DOMAIN s \cup {key} |-> IF k = key THEN body ELSE s[k]]

\* list_objects_v2(Prefix=prefix, ContinuationToken=token) on a store that
\* answers with at most n keys: the keys under the prefix after the token, in
\* key order.  The token the store hands out is the last key of the page.
list_objects_v2(s, prefix, token, n) ==
    LET under == {k \in DOMAIN s : KeyPrefix(k) = prefix}
        rest == SortKeys(IF token = <<>> THEN under
                         ELSE {k \in under : KeyLess(token, k)})
    IN  [Contents |-> Prefix(rest, n),
         IsTruncated |-> Len(rest) > n,
         NextContinuationToken |-> IF Len(rest) > n THEN rest[n] ELSE <<>>]

(***************************************************************************)
(* POST /api/track                                                         *)
(***************************************************************************)
\* An injective stand-in for uuid5(NAMESPACE_DNS, name).
uuid5(name) == <<"uuid5">> \o name

\* The client address: headers.get("X-Forwarded-For", remote_addr or "")
ClientIp(req) ==
    IF req.x_forwarded_for # NoneVal THEN req.x_forwarded_for
    ELSE Or(req.remote_addr, <<>>)

\* headers.get("User-Agent", "")
UserAgent(req) == IF req.user_agent # NoneVal THEN req.user_agent ELSE <<>>

\* The user_id track resolves, before truncation.
resolve_user_id(req) ==
    LET explicit == Strip(Or(Or(req.user_id, req.x_user_id), <<>>))
        cookie == IF Truthy(explicit) THEN explicit
                  ELSE IF req.cid # NoneVal THEN req.cid ELSE <<>>
    IN  IF Truthy(cookie) THEN cookie
        ELSE <<"anon_">> \o uuid5(ClientIp(req) \o <<"|">> \o UserAgent(req))

\* (data.get(field) or "").strip().lower()
Normalise(x) == Lower(Strip(Or(x, <<>>)))

\* A variant that checks the module only.
ValidatedModuleOnly(module, action) == Truthy(module)

\* The check before the write: both module and action are there.
Validated(module, action) == Truthy(module) /\ Truthy(action)

\* The event record track assembles.
make_event(req, id, ts) ==
    JsonObject(<<id>>, isoformat(ts),
               Prefix(resolve_user_id(req), UserIdMax),
               Prefix(Normalise(req.module), ModuleMax),
               Prefix(Normalise(req.action), ActionMax),
               TRUE)

\* The request is handled in one step.  id is the uuid4 drawn, putOk whether
\* the store accepts the put (otherwise it raises ClientError).
track(req, id, putOk) ==
    /\ trackReq' = req
    /\ IF ~Validated(Normalise(req.module), Normalise(req.action))
       THEN /\ trackResp' = [status |-> 400, id |-> 0, ts_utc |-> <<>>]
            /\ putCalls' = 0
            /\ UNCHANGED <<store, usedIds, acked>>
       ELSE LET ts == now
                event == make_event(req, id, ts)
                key == object_key(ts, id)
            IN  /\ id \notin usedIds
                /\ usedIds' = usedIds \cup {id}
                /\ putCalls' = 1
                /\ IF putOk
                   THEN /\ store' = put_object(store, key, safe_json(event, req.encodable))
                        /\ trackResp' = [status |-> 200, id |-> id, ts_utc |-> event.ts_utc]
                        /\ acked' = acked \cup
                               {[key |-> key, id |-> id, ts |-> ts,
                                 module |-> event.module]}
                   ELSE /\ trackResp' = [status |-> 500, id |-> 0, ts_utc |-> <<>>]
                        /\ UNCHANGED <<store, acked>>
    /\ UNCHANGED <<now, queryVars, windowVars, partVars, aggVars>>

\* The clock moves on.
Tick ==
    /\ now < StartTick + MaxTicks
    /\ now' = now + 1
    /\ UNCHANGED <<trackVars, queryVars, windowVars, partVars, aggVars>>

(***************************************************************************)
(* _list_event_keys: one list_objects_v2 call per step.                    *)
(***************************************************************************)
\* The generator is entered: the prefixes to visit, no continuation, no key yet.
\* With no prefix at all it is exhausted at once.
ListBegin(since, until) ==
    /\ qsince' = since
    /\ quntil' = until
    /\ qparts' = hourly_prefixes_between(since, until)
    /\ qcont' = <<>>
    /\ qkeys' = <<>>
    /\ qcalls' = <<>>
    /\ qpages' = <<>>
    /\ qpos' = 0
    /\ by_group' = <<>>
    /\ daily' = <<>>
    /\ qcounted' = <<>>
    /\ qbefore' = acked
    /\ qpc' = IF hourly_prefixes_between(since, until) = <<>> THEN "fold" ELSE "list"

\* A variant that takes every page for the last of its prefix.
list_event_keys_first_page_only(resp) ==
    /\ qkeys' = qkeys \o resp.Contents
    /\ qcont' = <<>>
    /\ qparts' = Tail(qparts)
    /\ qpc' = IF Tail(qparts) = <<>> THEN "fold" ELSE "list"

\* What the generator does with one answer of the store: yield its keys, then
\* go on from NextContinuationToken, or leave the prefix.
list_event_keys_step(resp) ==
    /\ qkeys' = qkeys \o resp.Contents
    /\ IF resp.IsTruncated
       THEN /\ qcont' = resp.NextContinuationToken
            /\ UNCHANGED <<qparts, qpc>>
       ELSE /\ qcont' = <<>>
            /\ qparts' = Tail(qparts)
            /\ qpc' = IF Tail(qparts) = <<>> THEN "fold" ELSE "list"

\* One call to the store, which answers with a page of at most n keys.
ListPage ==
    /\ qpc = "list"
    /\ \E n \in 1..MaxPage :
         LET prefix == Head(qparts)
             resp == list_objects_v2(store, prefix, qcont, n)
         IN  /\ qcalls' = Append(qcalls, [Prefix |-> prefix, ContinuationToken |-> qcont])
             /\ qpages' = Append(qpages, [Prefix |-> prefix] @@ resp)
             /\ list_event_keys_step(resp)
    /\ UNCHANGED <<now, trackVars, qreq, qsince, quntil, qbefore, qpos, by_group,
                   daily, qcounted, qresp, windowVars, partVars, aggVars>>

(***************************************************************************)
(* GET /api/stats                                                          *)
(***************************************************************************)
RECURSIVE InsertDesc(_, _)
\* x put behind every item that counts at least as much.
InsertDesc(sorted, x) ==
    IF sorted = <<>> THEN <<x>>
    ELSE IF Head(sorted).v >= x.v THEN <<Head(sorted)>> \o InsertDesc(Tail(sorted), x)
    ELSE <<x>> \o sorted

RECURSIVE SortedDesc(_)
\* sorted(d.items(), key=lambda x: x[1], reverse=True): stable
SortedDesc(items) ==
    IF items = <<>> THEN <<>>
    ELSE InsertDesc(SortedDesc(SubSeq(items, 1, Len(items) - 1)), items[Len(items)])

RECURSIVE SumBy(_, _)
\* The loop over by_group_raw.items() that adds each count under part i of its
\* (mod, uid) key.
SumBy(items, i) ==
    IF items = <<>> THEN <<>>
    ELSE LET d == SumBy(SubSeq(items, 1, Len(items) - 1), i)
             x == items[Len(items)]
         IN  DictSet(d, x.k[i], DictGet(d, x.k[i], 0) + x.v)

\* users[mod]: the uids seen under mod
UsersOf(items, mod) == {items[i].k[2] : i \in {j \in 1..Len(items) : items[j].k[1] = mod}}

\* The results list for the requested grouping.
reshape(raw, by) ==
    IF by = "module"
    THEN LET top == Prefix(SortedDesc(SumBy(raw, 1)), TopRows)
         IN  [i \in 1..Len(top) |->
                 [module |-> top[i].k, events |-> top[i].v,
                  users |-> Cardinality(UsersOf(raw, top[i].k))]]
    ELSE IF by = "user"
    THEN LET top == Prefix(SortedDesc(SumBy(raw, 2)), TopRows)
         IN  [i \in 1..Len(top) |-> [user_id |-> top[i].k, events |-> top[i].v]]
    ELSE LET top == Prefix(SortedDesc(raw), TopRows)
         IN  [i \in 1..Len(top) |->
                 [module |-> top[i].k[1], user_id |-> top[i].k[2],
                  events |-> top[i].v]]

\* module_filter = request.args.get("module"), lower-cased when given
module_filter(q) == IF Truthy(q.module) THEN Lower(q.module) ELSE q.module

\* The request arrives: the window is parsed, since and until are fixed and the
\* listing begins.  A window _parse_window raises on ends the request.
StatsBegin(q) ==
    /\ qpc = "idle"
    /\ qreq' = q
    /\ LET w == parse_window(q.window)
       IN  IF w.raised
           THEN /\ qpc' = "done"
                /\ qresp' = [NoStatsResponse EXCEPT !.status = 500]
                /\ UNCHANGED <<qsince, quntil, qparts, qcont, qkeys, qcalls, qpages,
                               qbefore, qpos, by_group, daily, qcounted>>
           ELSE /\ ListBegin(now - w.hours * TicksPerHour, now)
                /\ qresp' = NoStatsResponse
    /\ UNCHANGED <<now, trackVars, windowVars, partVars, aggVars>>

\* _aggregate takes the next key: get_object, _load_event, one turn of the loop.
LoadStep ==
    /\ qpc = "fold"
    /\ qpos < Len(qkeys)
    /\ LET key == qkeys[qpos + 1]
           ev == load_event(store[key])
           acc == agg_step([raised |-> FALSE, by_group |-> by_group, daily |-> daily],
                           store[key], module_filter(qreq))
       IN  IF acc.raised
           THEN /\ qpc' = "done"
                /\ qresp' = [NoStatsResponse EXCEPT !.status = 500]
                /\ UNCHANGED <<qpos, by_group, daily, qcounted>>
           ELSE /\ qpos' = qpos + 1
                /\ by_group' = acc.by_group
                /\ daily' = acc.daily
                /\ qcounted' = IF Retained(ev, module_filter(qreq))
                               THEN Append(qcounted, [key |-> key, module |-> ModuleOf(ev)])
                               ELSE qcounted
                /\ UNCHANGED <<qpc, qresp>>
    /\ UNCHANGED <<now, trackVars, qreq, qsince, quntil, qparts, qcont, qkeys,
                   qcalls, qpages, qbefore, windowVars, partVars, aggVars>>

\* Every key is folded in: the counts are reshaped and the response goes out.
StatsRespond ==
    /\ qpc = "fold"
    /\ qpos = Len(qkeys)
    /\ qpc' = "done"
    /\ qresp' = [status |-> 200, group_by |-> qreq.by,
                 since_utc |-> isoformat(qsince), until_utc |-> isoformat(quntil),
                 results |-> reshape(by_group, qreq.by)]
    /\ UNCHANGED <<now, trackVars, qreq, qsince, quntil, qparts, qcont, qkeys,
                   qcalls, qpages, qbefore, qpos, by_group, daily, qcounted,
                   windowVars, partVars, aggVars>>

(***************************************************************************)
(* The service: track and stats requests served side by side.              *)
(***************************************************************************)
Ids == 1..MaxIds

\* A track request carrying an explicit user id.
Request(module, action, encodable) ==
    [NoTrackRequest EXCEPT !.module = module, !.action = action,
                           !.user_id = <<"u">>, !.remote_addr = <<"r">>,
                           !.encodable = encodable]

Requests ==
    { Request(<<" ", "A">>, <<"o">>, TRUE),    \* module "a" once normalised
      Request(<<"b">>, <<"O">>, TRUE),
      Request(<<"b">>, <<"o">>, FALSE),        \* a lone surrogate in the body
      Request(NoneVal, <<"o">>, TRUE),         \* no module
      Request(<<"b">>, <<" ">>, TRUE) }        \* a blank action

Queries ==
    { [window |-> <<"1", "h">>, by |-> "module", module |-> NoneVal],
      [window |-> <<"1", "h">>, by |-> "user", module |-> <<"A">>],
      [window |-> <<"1", "H">>, by |-> "module,user", module |-> NoneVal],
      [window |-> <<"a", "h">>, by |-> "module", module |-> NoneVal] }

Init ==
    /\ now = StartTick
    /\ TrackIdle /\ QueryIdle /\ WindowIdle /\ PartIdle /\ AggIdle

\* Track requests, the clock and one stats request, interleaved at every call
\* the stats request makes to the store.
Next ==
    \/ \E req \in Requests, id \in Ids, putOk \in BOOLEAN : track(req, id, putOk)
    \/ Tick
    \/ \E q \in Queries : StatsBegin(q)
    \/ ListPage
    \/ LoadStep
    \/ StatsRespond

Spec == Init /\ [][Next]_vars


(***************************************************************************)
(* The write path alone.                                                   *)
(***************************************************************************)
NextTrack ==
    \/ \E req \in Requests, id \in Ids, putOk \in BOOLEAN : track(req, id, putOk)
    \/ Tick

SpecTrack == Init /\ [][NextTrack]_vars

(***************************************************************************)
(* The write path with every combination of identity sources.              *)
(***************************************************************************)
IdentRequests ==
    {[NoTrackRequest EXCEPT !.module = <<"a">>, !.action = <<"o">>,
                            !.user_id = u, !.x_user_id = h, !.cid = c,
                            !.x_forwarded_for = x, !.remote_addr = <<"r">>,
                            !.user_agent = g] :
        u \in {NoneVal, <<" ">>, <<"u">>}, h \in {NoneVal, <<"h">>},
        c \in {NoneVal, <<"c">>}, x \in {NoneVal, <<"x">>},
        g \in {NoneVal, <<"m">>}}

NextIdent == \E req \in IdentRequests, id \in Ids, putOk \in BOOLEAN : track(req, id, putOk)

SpecIdent == Init /\ [][NextIdent]_vars

(***************************************************************************)
(* _list_event_keys called with any since and until, beside the writers.   *)
(***************************************************************************)
EnumTicks == (StartTick - 1)..(StartTick + MaxTicks)

EnumBegin(since, until) ==
    /\ qpc = "idle"
    /\ ListBegin(since, until)
    /\ UNCHANGED <<now, trackVars, qreq, qresp, windowVars, partVars, aggVars>>

NextEnum ==
    \/ \E id \in Ids : track(Request(<<"b">>, <<"o">>, TRUE), id, TRUE)
    \/ Tick
    \/ \E since \in EnumTicks, until \in EnumTicks : EnumBegin(since, until)
    \/ ListPage

SpecEnum == Init /\ [][NextEnum]_vars

(***************************************************************************)
(* One stats request beside the writers; the request, once begun, keeps    *)
(* running: each of its steps is taken as long as it stays possible.       *)
(***************************************************************************)
NextList ==
    \/ \E id \in Ids : track(Request(<<"b">>, <<"o">>, TRUE), id, TRUE)
    \/ Tick
    \/ StatsBegin([window |-> <<"1", "h">>, by |-> "module", module |-> NoneVal])
    \/ ListPage
    \/ LoadStep
    \/ StatsRespond

FairList ==
    /\ Init /\ [][NextList]_vars
    /\ WF_vars(ListPage) /\ WF_vars(LoadStep) /\ WF_vars(StatsRespond)


(***************************************************************************)
(* Properties.                                                             *)
(***************************************************************************)
\* A str that is missing, empty or all blanks.
IsBlank(x) == x = NoneVal \/ \A i \in 1..Len(x) : x[i] = " "

\* How often x occurs in the sequence s.
Occurrences(s, x) == Cardinality({i \in 1..Len(s) : s[i] = x})

\* The "events" totals the response gives for module m (one row at most).
RowsOf(results, m) == {i \in 1..Len(results) : results[i].module = m}

\* C1: once a stats request grouped by module (no module filter) has answered,
\* every event that track acknowledged before the request began and whose
\* ts_utc lies in [since, until] was counted exactly once, under its module,
\* and the module's row gives the number of events counted under it.
C1_AckedEventCountedOnce ==
    (qpc = "done" /\ qresp.status = 200 /\ qreq.by = "module" /\ qreq.module = NoneVal)
    => \A e \in qbefore :
         (qsince <= e.ts /\ e.ts <= quntil)
         => /\ Occurrences(qcounted, [key |-> e.key, module |-> e.module]) = 1
            /\ \E i \in RowsOf(qresp.results, e.module) :
                 qresp.results[i].events =
                     Cardinality({j \in 1..Len(qcounted) : qcounted[j].module = e.module})

\* C2: every step leaves each stored object as it was and adds at most one; a
\* track request with a missing or blank module or action is answered 400
\* without any put; any other makes exactly one put and either adds exactly
\* one object (200) or none (500).
C2_OneObjectOrNothing ==
    [][LET isTrack == <<trackReq', trackResp', putCalls', usedIds'>>
                        # <<trackReq, trackResp, putCalls, usedIds>>
           added == DOMAIN store' \ DOMAIN store
           kept == \A k \in DOMAIN store : k \in DOMAIN store' /\ store'[k] = store[k]
           rejected == IsBlank(trackReq'.module) \/ IsBlank(trackReq'.action)
       IN  /\ kept
           /\ Cardinality(added) <= 1
           /\ isTrack =>
                IF rejected
                THEN trackResp'.status = 400 /\ putCalls' = 0 /\ added = {}
                ELSE /\ putCalls' = 1
                     /\ \/ trackResp'.status = 200 /\ Cardinality(added) = 1
                        \/ trackResp'.status = 500 /\ added = {}]_vars

\* C2's case: after a put that succeeded and one that failed, a request is
\* rejected without a put.
C2_Witness ==
    /\ trackResp.status = 400
    /\ putCalls = 0
    /\ DOMAIN store # {}
    /\ \E id \in usedIds : \A k \in DOMAIN store : k[3] # id

\* C3: _aggregate never raises, and without a module filter it counts exactly
\* the well-formed events among the bodies, whatever else lies between them.
WellFormed(body) ==
    /\ body.json = "object"
    /\ body.id # <<>> /\ body.ts_utc # <<>>
    /\ body.user_id # NoneVal /\ body.module # NoneVal /\ body.action # NoneVal

RECURSIVE Total(_)
Total(d) == IF d = <<>> THEN 0 ELSE Head(d).v + Total(Tail(d))

C3_BadPayloadsSkipped ==
    aOut.done
    => /\ ~aOut.raised
       /\ aFilter = NoneVal
          => Total(aOut.by_group)
               = Cardinality({i \in 1..Len(aBodies) : WellFormed(aBodies[i])})

\* C4: the user_id stored for an accepted request is the first non-blank of
\* the body's user_id, the X-User-Id header and the cid cookie, and the
\* anonymous id only when all three are blank.
C4_IdentityPrecedence ==
    trackResp.status = 200
    => \A k \in DOMAIN store :
         k[3] = trackResp.id
         => LET stored == store[k].user_id
            IN  IF ~IsBlank(trackReq.user_id) THEN stored = Strip(trackReq.user_id)
                ELSE IF ~IsBlank(trackReq.x_user_id) THEN stored = Strip(trackReq.x_user_id)
                ELSE IF ~IsBlank(trackReq.cid) THEN stored = trackReq.cid
                ELSE Head(stored) = "anon_"

\* The bodies in the order the permutation p puts them.
Permuted(bodies, p) == [i \in 1..Len(bodies) |-> bodies[p[i]]]

\* Two outcomes of _aggregate agree: both raise, or both return equal dicts.
SameOutcome(x, y) ==
    /\ x.raised = y.raised
    /\ ~x.raised => /\ AsMap(x.by_group) = AsMap(y.by_group)
                    /\ AsMap2(x.daily) = AsMap2(y.daily)

\* C5: whatever order the keys come in, _aggregate returns the same by_group
\* and the same daily.
C5_OrderIndependent ==
    aOut.done
    => \A p \in Permutations(1..Len(aBodies)) :
         SameOutcome(aggregate(Permuted(aBodies, p), aFilter), aOut)

\* C5's case: two different groups counted, with an undecodable body among
\* the keys.
C5_Witness ==
    /\ aOut.done /\ ~aOut.raised
    /\ Len(aOut.by_group) >= 2
    /\ \E i \in 1..Len(aBodies) : aBodies[i] = Garbage

\* C6 as claimed: for since <= until the number of partitions is
\* floor((until - since) / 1h) + 1.
C6_CountFromRawDifference ==
    (pOut.done /\ pSince <= pUntil)
    => Len(pOut.prefixes) = ((pUntil - pSince) \div TicksPerHour) + 1

\* C6 amended: for since <= until the partitions are the hours from the hour
\* of since to the hour of until, each once and in increasing order, one per
\* hour started: floor(until / 1h) - floor(since / 1h) + 1 of them, which is
\* floor((until - since) / 1h) + 1 or one more.
C6_PartitionsCoverHours ==
    (pOut.done /\ pSince <= pUntil)
    => LET ps == pOut.prefixes
           n == (pUntil \div TicksPerHour) - (pSince \div TicksPerHour) + 1
       IN  /\ Len(ps) = n
           /\ \A i \in 1..Len(ps) :
                ps[i] = hour_prefix(((pSince \div TicksPerHour) + i - 1) * TicksPerHour)
           /\ \A i \in 1..(Len(ps) - 1) : PrefixLess(ps[i], ps[i + 1])
           /\ n - (((pUntil - pSince) \div TicksPerHour) + 1) \in {0, 1}
           /\ (pSince = pUntil) => n = 1
           /\ (pSince % TicksPerHour = 0 /\ pUntil % TicksPerHour = 0)
              => n = ((pUntil - pSince) \div TicksPerHour) + 1

\* C6's case: since is inside an hour, until in a later hour of the next day,
\* and there is one partition more than floor((until - since) / 1h) + 1.
C6_Witness ==
    /\ pOut.done
    /\ pSince < pUntil
    /\ pSince % TicksPerHour # 0
    /\ pOut.prefixes[1][1] < pOut.prefixes[Len(pOut.prefixes)][1]
    /\ Len(pOut.prefixes) = ((pUntil - pSince) \div TicksPerHour) + 2

\* C7: with since after until the enumeration makes no list call and yields
\* no key.
C7_EmptyWindow ==
    (qpc # "idle" /\ qsince > quntil) => (qcalls = <<>> /\ qkeys = <<>>)

\* The form <integer>h or <integer>d.
IsWindowForm(w) ==
    /\ Len(w) >= 2
    /\ w[Len(w)] \in {"h", "d"}
    /\ LET lead == SubSeq(w, 1, Len(w) - 1)
           digits == IF lead[1] = "-" THEN Tail(lead) ELSE lead
       IN  Len(digits) > 0 /\ \A i \in 1..Len(digits) : IsDigit(digits[i])

\* C8: _parse_window never raises, and a string that is not of the form
\* <integer>h or <integer>d gives 168 hours.
C8_WindowNeverFails ==
    wOut.done
    => /\ ~wOut.raised
       /\ (wIn # NoneVal /\ ~IsWindowForm(wIn)) => wOut.hours = DefaultHours

\* C9: no step changes or removes a stored object, and every stored object
\* holds a ts_utc whose hour is the hour prefix of its key.
C9_WriteOnce ==
    [][/\ \A k \in DOMAIN store : k \in DOMAIN store' /\ store'[k] = store[k]
       /\ \A k \in DOMAIN store' :
            /\ store'[k].ts_utc # <<>>
            /\ SubSeq(store'[k].ts_utc, 1, 2) = KeyPrefix(k)]_vars

RECURSIVE Flatten(_)
\* The keys of the pages, in the order the store gave them.
Flatten(pages) ==
    IF pages = <<>> THEN <<>> ELSE Head(pages).Contents \o Flatten(Tail(pages))

\* Where prefix p stands among the partitions of the window.
PartIndex(p) ==
    LET all == hourly_prefixes_between(qsince, quntil)
    IN  CHOOSE i \in 1..Len(all) : all[i] = p

\* The listing so far: the keys yielded are the keys of the pages, in order and
\* none twice; the first call goes to the first partition without a token;
\* after a truncated page the next call stays in the partition and passes the
\* token of that page; after a last page it goes to the next partition
\* without a token; and the listing is over only after the last page of the
\* last partition.
ListingFollowsCursor ==
    LET all == hourly_prefixes_between(qsince, quntil)
    IN  /\ Len(qcalls) = Len(qpages)
        /\ qkeys = Flatten(qpages)
        /\ \A i \in 1..Len(qkeys) : \A j \in 1..Len(qkeys) : qkeys[i] = qkeys[j] => i = j
        /\ \A i \in 1..Len(qcalls) :
             /\ qcalls[i].Prefix = qpages[i].Prefix
             /\ IF i = 1
                THEN qcalls[i].Prefix = all[1] /\ qcalls[i].ContinuationToken = <<>>
                ELSE IF qpages[i - 1].IsTruncated
                THEN /\ qcalls[i].Prefix = qcalls[i - 1].Prefix
                     /\ qcalls[i].ContinuationToken = qpages[i - 1].NextContinuationToken
                ELSE /\ PartIndex(qcalls[i].Prefix) = PartIndex(qcalls[i - 1].Prefix) + 1
                     /\ qcalls[i].ContinuationToken = <<>>
        /\ (qpc = "fold" \/ (qpc = "done" /\ qresp.status = 200))
           => /\ qpages # <<>>
              /\ ~qpages[Len(qpages)].IsTruncated
              /\ qpages[Len(qpages)].Prefix = all[Len(all)]

\* C10: the listing follows the cursor as above at every moment, and a listing
\* that has begun comes to its end.
C10_ListingCompletes ==
    /\ []ListingFollowsCursor
    /\ (qpc = "list") ~> (qpc = "fold")

\* C10's case: a partition listed in more than one page, then the listing ended.
C10_Witness ==
    /\ qpc = "fold"
    /\ Len(qkeys) >= 2
    /\ \E i \in 1..Len(qpages) : qpages[i].IsTruncated
    /\ Len(hourly_prefixes_between(qsince, quntil)) >= 2

====
